---- MODULE Spec2Model ----
(***************************************************************************)
(* Semantic company search: the offline index build                        *)
(* (data_embedding_setup.py), the retrieval service (app/services/         *)
(* search.py), the encoder (app/services/embedding.py) and the search      *)
(* route (app/api/routes.py).                                              *)
(*                                                                         *)
(* The vector store (ChromaDB) and the sentence-transformer model are      *)
(* external libraries.  They are modelled by the contract the code relies  *)
(* on: every call into them either returns what the contract says or       *)
(* raises.  Cosine distances are kept exact by scaling them by two: the    *)
(* vectors are unit vectors at multiples of 60 degrees, so the distances   *)
(* 0, 0.5, 1.5, 2 are the integers 0, 1, 3, 4 and a score 1 - d is 2 - d2. *)
(***************************************************************************)
EXTENDS Integers, Sequences, FiniteSets, TLC

\* ------------------------------------------------------------------ bounds
\* Longest dataset (rows of the CSV file) a build reads.
MaxRows == 3
\* Largest limit a search request asks for.
MaxLimit == 2
\* Longest dataset of a build that runs beside the service (Spec).
MaxServed == 2
\* Threads calling the encoder concurrently (SpecEnc).
NThreads == 2

\* ------------------------------------------------------- program constants
\* collection.get(limit=10000)
GetLimit == 10000
\* A distance is kept as twice its value; Scale is the 1 of "1 - distance".
Scale == 2

VARIABLES
    index,           \* the persisted collection: a sequence of entries
    last,            \* what the last build run did, and its exit status
    instance,        \* SearchService._instance is not None
    initialized,     \* SearchService._instance._initialized
    collection,      \* SearchService.collection is connected
    companies,       \* SearchService.companies: stock symbol -> Company
    initCount,       \* completed runs of SearchService._initialize
    skippedInit,     \* the last SearchService() took __init__'s else branch
    model,           \* EmbeddingService._model: 0 is None, else the object
    loadCount,       \* SentenceTransformer constructions that returned
    pcR,             \* the search route: "idle" or "pending"
    req,             \* the pending request's query, limit and sector
    search_results,  \* what collection.query returned to the last search
    resp,            \* the last response of the search route
    called,          \* the last call of search made past the route
    tpc,             \* per thread: its place in EmbeddingService.model
    tnew,            \* per thread: the model it constructed (0: none)
    tused            \* per thread: the model its encode call ran on

vars == << index, last, instance, initialized, collection,
           companies, initCount, skippedInit, model, loadCount, pcR, req,
           search_results, resp, called, tpc, tnew, tused >>

buildVars == << index, last >>
serviceVars == << instance, initialized, collection, companies, initCount,
                  skippedInit >>
encoderVars == << model, loadCount >>
routeVars == << pcR, req, search_results, resp, called >>
threadVars == << tpc, tnew, tused >>

\* ------------------------------------------------------------- the dataset
\* Rows of the CSV file after fillna("") and column normalisation.
Row(n, s, c, d) ==
    [company_name |-> n, stock_symbol |-> s, sector |-> c, description |-> d]

ServedPool ==
    { Row("Acme", "A", "Tech", "chips"),
      Row("Acme", "A", "Health", "chips"),
      Row("Bolt", "B", "Tech", "cloud") }

RowPool == ServedPool \cup { Row("Void", "", "", "") }

SeqsUpTo(S, n) == UNION { [1..k -> S] : k \in 0..n }

Datasets == SeqsUpTo(RowPool, MaxRows)

ServedDatasets == SeqsUpTo(ServedPool, MaxServed)

Range(s) == { s[i] : i \in DOMAIN s }

Min(a, b) == IF a < b THEN a ELSE b

\* Optional[str]: <<>> is None, <<s>> is the string s.
None == << >>
Some(s) == << s >>

\* ------------------------------------------------------------- the encoder
\* model.encode: a deterministic map from a text to a unit vector, here the
\* vector's angle in multiples of 60 degrees.
Embed(text) == Len(text) % 4

\* Cosine distance of two such vectors, times two.
Distance2(u, v) ==
    LET a == IF u < v THEN v - u ELSE u - v
    IN  CASE a = 0 -> 0
          [] a = 1 -> 1
          [] a = 2 -> 3
          [] OTHER -> 4

CombinedTextNoSymbol(row) ==
    row.company_name \o " " \o row.sector \o " " \o row.description

\* DataProcessor.process_data: one Company per row, none left out.
CombinedText(row) ==
    row.company_name \o " " \o row.stock_symbol \o " " \o row.sector
        \o " " \o row.description

ProcessData(rows) ==
    [ i \in DOMAIN rows |->
        [company_name |-> rows[i].company_name,
         stock_symbol |-> rows[i].stock_symbol,
         sector |-> rows[i].sector,
         description |-> rows[i].description,
         combined_text |-> CombinedText(rows[i])] ]

\* EmbeddingService.generate_embeddings: a dict keyed by stock symbol, so a
\* repeated symbol keeps the embedding of its last company.
LastWith(cs, symbol) ==
    CHOOSE i \in DOMAIN cs :
        /\ cs[i].stock_symbol = symbol
        /\ \A j \in DOMAIN cs : cs[j].stock_symbol = symbol => j <= i

GenerateEmbeddings(cs) ==
    [ symbol \in { cs[i].stock_symbol : i \in DOMAIN cs } |->
        Embed(cs[LastWith(cs, symbol)].combined_text) ]

\* --------------------------------------------------------- the vector store
Ids(coll) == { coll[i].id : i \in DOMAIN coll }

HasDuplicates(ids) ==
    \E i, j \in DOMAIN ids : i # j /\ ids[i] = ids[j]

\* collection.add: rejects a batch that repeats an id; an id the collection
\* already holds is not inserted again.
AddRaises(ids) == HasDuplicates(ids)

RECURSIVE AppendNew(_, _, _)
AppendNew(coll, batch, i) ==
    IF i > Len(batch) THEN coll
    ELSE AppendNew(IF batch[i].id \in Ids(coll) THEN coll
                   ELSE Append(coll, batch[i]),
                   batch, i + 1)

Add(coll, ids, embeddings, metadatas) ==
    AppendNew(coll,
              [ i \in DOMAIN ids |->
                  [id |-> ids[i], embedding |-> embeddings[i],
                   metadata |-> metadatas[i]] ],
              1)

\* populate_vector_db: the ids, embeddings and metadatas handed to add.
PopulateIds(cs) == [ i \in DOMAIN cs |-> cs[i].stock_symbol ]

PopulateEmbeddings(cs) ==
    [ i \in DOMAIN cs |-> GenerateEmbeddings(cs)[cs[i].stock_symbol] ]

PopulateMetadatas(cs) ==
    [ i \in DOMAIN cs |->
        [company_name |-> cs[i].company_name,
         sector |-> cs[i].sector,
         description |-> cs[i].description] ]

\* ---------------------------------------------------------- the index build
BuildFailures ==
    { "none", "connect", "count", "delete", "load", "encode", "add" }

ShouldSkipInverted(count, force) == count > 0 /\ force

\* main: "if count > 0 and not force_reload: return"
ShouldSkip(count, force) == count > 0 /\ ~force

ShouldClearNever(count, force) == FALSE

\* main: "if force_reload and count > 0: collection.delete(where={})", which
\* empties the collection or raises
ShouldClear(count, force) == force /\ count > 0

\* What one run of main does to the collection `coll`, given --force, the
\* dataset and the call that raises (if any): the collection it leaves, its
\* exit status (any exception ends in sys.exit(1)), whether it cleared the
\* collection, the rows get_companies returned (None when it was not
\* called or raised) and whether generate_embeddings returned.
ExitedQuiet(coll, force, code, wiped, loaded, encoded) ==
    [index |-> coll, force |-> force, exit |-> 0, wiped |-> wiped,
     companies |-> loaded, encoded |-> encoded]

Exited(coll, force, code, wiped, loaded, encoded) ==
    [index |-> coll, force |-> force, exit |-> code, wiped |-> wiped,
     companies |-> loaded, encoded |-> encoded]

RunMain(coll, force, rows, fail) ==
    LET count == Len(coll)
        cleared == IF ShouldClear(count, force) THEN << >> ELSE coll
        cs == ProcessData(rows)
        ids == PopulateIds(cs)
    IN  IF fail \in {"connect", "count"}
          THEN Exited(coll, force, 1, FALSE, None, FALSE)
        ELSE IF ShouldSkip(count, force)
          THEN Exited(coll, force, 0, FALSE, None, FALSE)
        ELSE IF ShouldClear(count, force) /\ fail = "delete"
          THEN Exited(coll, force, 1, FALSE, None, FALSE)
        ELSE IF fail = "load"
          THEN Exited(cleared, force, 1, cleared # coll, None, FALSE)
        ELSE IF fail = "encode"
          THEN Exited(cleared, force, 1, cleared # coll, Some(rows), FALSE)
        ELSE IF fail = "add" \/ AddRaises(ids)
          THEN Exited(cleared, force, 1, cleared # coll, Some(rows), TRUE)
        ELSE Exited(Add(cleared, ids, PopulateEmbeddings(cs),
                        PopulateMetadatas(cs)),
                    force, 0, cleared # coll, Some(rows), TRUE)

NoRun ==
    [ran |-> FALSE, force |-> FALSE, populated |-> FALSE, exit |-> 0,
     wiped |-> FALSE, companies |-> None, encoded |-> FALSE]

\* python data_embedding_setup.py [--force], with `rows` the dataset on disk
Build(force, rows, fail) ==
    /\ LET out == RunMain(index, force, rows, fail)
       IN  /\ index' = out.index
           /\ last' = [ran |-> TRUE, force |-> out.force,
                       populated |-> Len(index) > 0, exit |-> out.exit,
                       wiped |-> out.wiped, companies |-> out.companies,
                       encoded |-> out.encoded]
    /\ UNCHANGED << serviceVars, encoderVars, routeVars, threadVars >>

\* ------------------------------------------------- the retrieval service
Company(symbol, metadata) ==
    [company_name |-> metadata.company_name, stock_symbol |-> symbol,
     sector |-> metadata.sector, description |-> metadata.description]

EmptyMap == [ k \in {} |-> 0 ]

Put(map, k, v) ==
    [ x \in (DOMAIN map) \cup {k} |-> IF x = k THEN v ELSE map[x] ]

\* collection.get(limit=...): the first entries, in insertion order
Get(coll, limit) == SubSeq(coll, 1, Min(limit, Len(coll)))

\* _load_company_metadata_from_db: self.companies[stock_symbol] = company
RECURSIVE LoadCompanyMetadata(_, _, _)
LoadCompanyMetadata(map, items, i) ==
    IF i > Len(items) THEN map
    ELSE LoadCompanyMetadata(
             Put(map, items[i].id, Company(items[i].id, items[i].metadata)),
             items, i + 1)

ServiceFailures == { "none", "connect", "count", "get" }

NeedsInitAlways(inst, init) == TRUE

\* __init__: "if not hasattr(self, '_initialized') or not self._initialized"
NeedsInit(inst, init) == ~inst \/ ~init

\* SearchService(): __new__, then __init__ and, inside it, _initialize.
\* An exception of _initialize leaves _initialized False.
Construct(fail) ==
    /\ instance' = TRUE
    /\ IF NeedsInit(instance, initialized)
         THEN /\ skippedInit' = FALSE
              /\ collection' = (fail # "connect")
              /\ IF fail = "none"
                   THEN /\ companies' =
                              LoadCompanyMetadata(EmptyMap,
                                                  Get(index, GetLimit), 1)
                        /\ initialized' = TRUE
                        /\ initCount' = initCount + 1
                   ELSE /\ companies' = EmptyMap
                        /\ initialized' = FALSE
                        /\ UNCHANGED initCount
         ELSE /\ fail = "none"
              /\ skippedInit' = TRUE
              /\ UNCHANGED << initialized, collection, companies, initCount >>
    /\ UNCHANGED << buildVars, encoderVars, routeVars, threadVars >>

\* ---------------------------------------------------------------- encoding
EncodeFailures == { "none", "load", "encode" }

\* EmbeddingService.model followed by model.encode, run without interruption
\* (the route is a coroutine that never awaits): the model after the call,
\* the constructions counted, and whether the call raised.
GenerateEmbedding(m, n, fail) ==
    IF m = 0 /\ fail = "load"
      THEN [model |-> 0, loadCount |-> n, raised |-> TRUE]
    ELSE [model |-> IF m = 0 THEN n + 1 ELSE m,
          loadCount |-> IF m = 0 THEN n + 1 ELSE n,
          raised |-> fail = "encode"]

\* preload_all_components, called by the startup event
Preload(fail) ==
    /\ initialized
    /\ fail = "load" => model = 0
    /\ LET e == GenerateEmbedding(model, loadCount, fail)
       IN  /\ model' = e.model
           /\ loadCount' = e.loadCount
    /\ UNCHANGED << buildVars, serviceVars, routeVars, threadVars >>

\* ------------------------------------------------------------------ search
Queries == { "tech", "banking" }
Limits == 1..MaxLimit
Sectors == { None, Some(""), Some("Tech"), Some("Energy") }

WhereClauseIgnored(sector) == None

\* search: "if sector: where_clause = {'sector': sector}"
WhereClause(sector) ==
    IF sector # None /\ sector[1] # "" THEN Some(sector[1]) ELSE None

NResultsOffByOne(limit) == limit + 1

\* search: "n_results=limit"
NResults(limit) == limit

\* The entries a where clause lets through (exact match on the metadata).
Matches(coll, where) ==
    { i \in DOMAIN coll :
        where = None \/ coll[i].metadata.sector = where[1] }

Injective(f) == \A a, b \in DOMAIN f : a # b => f[a] # f[b]

\* collection.query: the n nearest matching entries, nearest first; fewer
\* when fewer match; entries at the same distance in any order.
Rankings(coll, qvec, n, where) ==
    LET M == Matches(coll, where)
        k == Min(n, Cardinality(M))
        d(i) == Distance2(qvec, coll[i].embedding)
    IN  { h \in [1..k -> M] :
            /\ Injective(h)
            /\ \A a \in 1..(k - 1) : d(h[a]) <= d(h[a + 1])
            /\ \A j \in M \ Range(h) : \A a \in 1..k : d(h[a]) <= d(j) }

Query(coll, qvec, n, where) ==
    { [ a \in DOMAIN h |->
          [id |-> coll[h[a]].id,
           distance |-> Distance2(qvec, coll[h[a]].embedding)] ] :
      h \in Rankings(coll, qvec, n, where) }

NormalizeRaw(distance) == distance

\* search: "normalized_score = 1 - score"
Normalize(distance) == Scale - distance

CompanyResult(company, score) ==
    [company_name |-> company.company_name,
     stock_symbol |-> company.stock_symbol,
     sector |-> company.sector,
     description |-> company.description,
     score |-> score]

StepPrepend(acc, map, hit) ==
    IF hit.id \in DOMAIN map
      THEN [acc EXCEPT !.results =
                << CompanyResult(map[hit.id], Normalize(hit.distance)) >> \o @]
    ELSE acc

StepStrict(acc, map, hit) ==
    IF hit.id \in DOMAIN map
      THEN [acc EXCEPT !.results =
                Append(@, CompanyResult(map[hit.id], Normalize(hit.distance)))]
    ELSE [acc EXCEPT !.raised = TRUE]

\* One turn of search's loop over the hits: the hit is looked up in
\* self.companies and, when found, its result is appended.
Step(acc, map, hit) ==
    IF hit.id \in DOMAIN map
      THEN [acc EXCEPT !.results =
                Append(@, CompanyResult(map[hit.id], Normalize(hit.distance)))]
    ELSE acc

RECURSIVE Loop(_, _, _, _)
Loop(acc, map, hits, i) ==
    IF i > Len(hits) \/ acc.raised THEN acc
    ELSE Loop(Step(acc, map, hits[i]), map, hits, i + 1)

SearchFailures == { "none", "load", "encode", "query" }

EncodeFailure(fail) == IF fail = "query" THEN "none" ELSE fail

\* SearchService.search, given the call that raises (if any) and the hits
\* collection.query answers with.
Search(map, m, n, fail, hits) ==
    LET e == GenerateEmbedding(m, n, EncodeFailure(fail))
        out == IF e.raised \/ fail = "query"
                 THEN [raised |-> TRUE, results |-> << >>]
               ELSE Loop([raised |-> FALSE, results |-> << >>], map, hits, 1)
    IN  [raised |-> out.raised, results |-> out.results,
         hits |-> IF e.raised \/ fail = "query" THEN << >> ELSE hits,
         model |-> e.model, loadCount |-> e.loadCount]

\* ---------------------------------------------------------- the search route
NoReq == [query |-> "", limit |-> 0, sector |-> None]
NoResp == [status |-> 0, results |-> << >>, count |-> 0, query |-> None]

RespondNoCatch(out, query) ==
    IF out.raised THEN NoResp
    ELSE [status |-> 200, results |-> out.results,
          count |-> Len(out.results), query |-> Some(query)]

RespondMiscount(out, query) ==
    IF out.raised
      THEN [status |-> 500, results |-> << >>, count |-> 0, query |-> None]
    ELSE [status |-> 200, results |-> out.results,
          count |-> Len(out.results) + 1, query |-> Some(query)]

\* search_companies: the SearchResponse, or HTTPException(status_code=500)
Respond(out, query) ==
    IF out.raised
      THEN [status |-> 500, results |-> << >>, count |-> 0, query |-> None]
    ELSE [status |-> 200, results |-> out.results,
          count |-> Len(out.results), query |-> Some(query)]

\* GET /search?query=..&limit=..&sector=.. reaches the service constructed
\* when app.api.routes was imported.
Request(query, limit, sector) ==
    /\ pcR = "idle"
    /\ initialized
    /\ pcR' = "pending"
    /\ req' = [query |-> query, limit |-> limit, sector |-> sector]
    /\ search_results' = << >>
    /\ resp' = NoResp
    /\ UNCHANGED << called, buildVars, serviceVars, encoderVars, threadVars >>

HandleForgetful(fail) ==
    /\ pcR = "pending"
    /\ fail = "load" => model = 0
    /\ \E hits \in Query(index, Embed(req.query), NResults(req.limit),
                         WhereClause(req.sector)) :
         LET out == Search(companies, model, loadCount, fail, hits)
         IN  /\ resp' = Respond(out, req.query)
             /\ search_results' = out.hits
             /\ model' = out.model
             /\ loadCount' = out.loadCount
             /\ companies' = IF out.raised THEN EmptyMap ELSE companies
    /\ pcR' = "idle"
    /\ UNCHANGED << instance, initialized, collection, initCount,
                    skippedInit >>
    /\ UNCHANGED << req, called, buildVars, threadVars >>

Handle(fail) ==
    /\ pcR = "pending"
    /\ fail = "load" => model = 0
    /\ \E hits \in Query(index, Embed(req.query), NResults(req.limit),
                         WhereClause(req.sector)) :
         LET out == Search(companies, model, loadCount, fail, hits)
         IN  /\ resp' = Respond(out, req.query)
             /\ search_results' = out.hits
             /\ model' = out.model
             /\ loadCount' = out.loadCount
    /\ pcR' = "idle"
    /\ UNCHANGED << req, called, buildVars, serviceVars, threadVars >>

\* --------------------------------------------- search called past the route
NoCall ==
    [made |-> FALSE, ready |-> FALSE, encoded |-> FALSE, queried |-> FALSE,
     raised |-> FALSE, results |-> None]

\* SearchService._instance.search(query, limit, sector), called by code that
\* holds the instance whether or not __init__ completed on it (the instance
\* outlives an _initialize that raised).  search tests nothing before it
\* encodes; with self.collection still None the query raises AttributeError.
\* Recorded: whether _initialized held, whether generate_embedding and
\* collection.query were called, and the list returned (None if it raised).
CallSearch(query, limit, sector, fail) ==
    /\ instance
    /\ fail = "load" => model = 0
    /\ \E hits \in Query(index, Embed(query), NResults(limit),
                         WhereClause(sector)) :
         LET out == Search(companies, model, loadCount, fail, hits)
             e == GenerateEmbedding(model, loadCount, EncodeFailure(fail))
             raised == out.raised \/ ~collection
         IN  /\ called' = [made |-> TRUE, ready |-> initialized,
                           encoded |-> TRUE,
                           queried |-> ~e.raised /\ collection,
                           raised |-> raised,
                           results |-> IF raised THEN None
                                       ELSE Some(out.results)]
             /\ model' = out.model
             /\ loadCount' = out.loadCount
    /\ UNCHANGED << pcR, req, search_results, resp >>
    /\ UNCHANGED << buildVars, serviceVars, threadVars >>

\* ------------------------------------------------------------ specification
Init ==
    /\ index = << >>
    /\ last = NoRun
    /\ instance = FALSE
    /\ initialized = FALSE
    /\ collection = FALSE
    /\ companies = EmptyMap
    /\ initCount = 0
    /\ skippedInit = FALSE
    /\ model = 0
    /\ loadCount = 0
    /\ pcR = "idle"
    /\ req = NoReq
    /\ search_results = << >>
    /\ resp = NoResp
    /\ called = NoCall
    /\ tpc = [ t \in 1..NThreads |-> "idle" ]
    /\ tnew = [ t \in 1..NThreads |-> 0 ]
    /\ tused = [ t \in 1..NThreads |-> 0 ]

\* The service, the search route and, beside them, the build runs that give
\* the index its contents.  A build that fails leaves the index as it was or
\* empty, which the runs taken here produce too; the failing runs are those
\* of SpecBuild.
Next ==
    \/ \E force \in BOOLEAN, rows \in ServedDatasets :
           Build(force, rows, "none")
    \/ \E fail \in ServiceFailures : Construct(fail)
    \/ \E fail \in EncodeFailures : Preload(fail)
    \/ \E query \in Queries, limit \in Limits, sector \in Sectors :
           Request(query, limit, sector)
    \/ \E fail \in SearchFailures : Handle(fail)

Spec == Init /\ [][Next]_vars

\* The build script alone, over every dataset of up to MaxRows rows.
NextBuild ==
    \E force \in BOOLEAN, rows \in Datasets, fail \in BuildFailures :
        Build(force, rows, fail)

SpecBuild == Init /\ [][NextBuild]_vars

\* The service as its callers in the process see it: constructions that may
\* raise, builds of the index, and calls of search on the instance.
NextCall ==
    \/ \E force \in BOOLEAN, rows \in ServedDatasets :
           Build(force, rows, "none")
    \/ \E fail \in ServiceFailures : Construct(fail)
    \/ \E query \in Queries, limit \in Limits, sector \in Sectors,
          fail \in SearchFailures :
           CallSearch(query, limit, sector, fail)

SpecCall == Init /\ [][NextCall]_vars

\* ------------------------------------------- the encoder under several threads
\* EmbeddingService.model is a check, a construction and an assignment, with
\* no lock: a thread may be preempted between any two of them.
Threads == 1..NThreads

\* generate_embedding / generate_embeddings is entered: self.model is next
Call(t) ==
    /\ tpc[t] = "idle"
    /\ tpc' = [tpc EXCEPT ![t] = "check"]
    /\ tused' = [tused EXCEPT ![t] = 0]
    /\ UNCHANGED << tnew, model, loadCount >>
    /\ UNCHANGED << buildVars, serviceVars, routeVars >>

\* "if self._model is None"
Check(t) ==
    /\ tpc[t] = "check"
    /\ tpc' = [tpc EXCEPT ![t] = IF model = 0 THEN "load" ELSE "return"]
    /\ UNCHANGED << tnew, tused, model, loadCount >>
    /\ UNCHANGED << buildVars, serviceVars, routeVars >>

\* "SentenceTransformer(self.config.model_name)" returns a new model, or raises
Load(t, ok) ==
    /\ tpc[t] = "load"
    /\ IF ok
         THEN /\ loadCount' = loadCount + 1
              /\ tnew' = [tnew EXCEPT ![t] = loadCount + 1]
              /\ tpc' = [tpc EXCEPT ![t] = "assign"]
         ELSE /\ tpc' = [tpc EXCEPT ![t] = "idle"]
              /\ UNCHANGED << loadCount, tnew >>
    /\ UNCHANGED << tused, model >>
    /\ UNCHANGED << buildVars, serviceVars, routeVars >>

\* "self._model = ..."
Assign(t) ==
    /\ tpc[t] = "assign"
    /\ model' = tnew[t]
    /\ tpc' = [tpc EXCEPT ![t] = "return"]
    /\ UNCHANGED << tnew, tused, loadCount >>
    /\ UNCHANGED << buildVars, serviceVars, routeVars >>

\* "return self._model", and encode runs on the model returned
Encode(t) ==
    /\ tpc[t] = "return"
    /\ tused' = [tused EXCEPT ![t] = model]
    /\ tpc' = [tpc EXCEPT ![t] = "idle"]
    /\ UNCHANGED << tnew, model, loadCount >>
    /\ UNCHANGED << buildVars, serviceVars, routeVars >>

NextEnc ==
    \E t \in Threads :
        \/ Call(t)
        \/ Check(t)
        \/ \E ok \in BOOLEAN : Load(t, ok)
        \/ Assign(t)
        \/ Encode(t)

SpecEnc == Init /\ [][NextEnc]_vars

\* ================================================================== claims

\* The entries a build makes of a dataset: one per row, in the rows' order.
EntryOf(row) ==
    [id |-> row.stock_symbol,
     embedding |-> Embed(CombinedText(row)),
     metadata |-> [company_name |-> row.company_name,
                   sector |-> row.sector,
                   description |-> row.description]]

Replaced(coll, rows) ==
    /\ Len(coll) = Len(rows)
    /\ ~HasDuplicates([ i \in DOMAIN coll |-> coll[i].id ])
    /\ Ids(coll) = { rows[i].stock_symbol : i \in DOMAIN rows }
    /\ \A i \in DOMAIN coll : \E j \in DOMAIN rows : coll[i] = EntryOf(rows[j])

\* C1: a build run without --force on a populated index changes nothing:
\* the index after the run is the index before it (entries and count), at
\* every such run, and the run neither loads the dataset nor encodes.
C1_NoForceIsNoOp ==
    [][ (last'.ran /\ ~last'.force /\ last'.populated)
          => /\ index' = index
             /\ Len(index') = Len(index)
             /\ last'.companies = None
             /\ ~last'.encoded ]_vars

\* C1 witness: a run without --force has ended on a populated index.
C1_Witness ==
    /\ last.ran /\ ~last.force /\ last.populated /\ last.exit = 0
    /\ Len(index) > 0

\* C2 as stated: every run with --force on a populated index ends with the
\* index holding exactly the current dataset (count, ids, no old entry).
C2_ForceAlwaysReplaces ==
    [][ \A rows \in Datasets, fail \in BuildFailures :
          (Len(index) > 0 /\ Build(TRUE, rows, fail))
            => Replaced(index', rows) ]_vars

\* C2 amended: a run with --force on a populated index that ends without an
\* error (exit status 0) leaves the index holding exactly the dataset it
\* loaded: as many entries as rows, no id twice, no id from outside the
\* dataset, no old entry.
C2_ForceReplacesOnSuccess ==
    (last.ran /\ last.force /\ last.populated /\ last.exit = 0)
      => /\ last.companies # None
         /\ Replaced(index, last.companies[1])

\* C2 witness: a run with --force has replaced a populated index.
C2_Witness ==
    /\ last.ran /\ last.force /\ last.populated /\ last.wiped
    /\ last.exit = 0
    /\ Len(index) > 0

\* ------------------------------------------------------- claims on search
\* The step in which the route answers the pending request.
Answered == pcR = "pending" /\ pcR' = "idle"

\* The entries the request's sector lets through: all of them when the
\* sector is absent or the empty string.
Matching(coll, sector) ==
    { k \in DOMAIN coll :
        sector \in { None, Some("") } \/ coll[k].metadata.sector = sector[1] }

\* The hits whose id the metadata map knows, in the hits' order.
Known(hit) == hit.id \in DOMAIN companies
Survivors(hits) == SelectSeq(hits, Known)

Position(hits, id) == CHOOSE k \in DOMAIN hits : hits[k].id = id

\* C3 as stated: whatever sector value a request gives, every result's
\* sector equals it.
C3_EveryFilterValueExact ==
    [][ (Answered /\ resp'.status = 200 /\ req.sector # None)
          => \A i \in DOMAIN resp'.results :
                 resp'.results[i].sector = req.sector[1] ]_vars

\* C3 amended: for a non-empty sector value, every result is the map's
\* record of an index entry whose sector equals the value, so its sector
\* field equals the value wherever the map agrees with the index on that
\* entry's sector; a value no entry carries gives an empty list, and a
\* search in which no call fails is answered 200.  (The empty string is no
\* filter.)
C3_NonEmptyFilterExact ==
    [][ /\ (Answered /\ resp'.status = 200 /\ req.sector # None
              /\ req.sector # Some(""))
          => /\ \A i \in DOMAIN resp'.results :
                  \E k \in DOMAIN index :
                    /\ index[k].id = resp'.results[i].stock_symbol
                    /\ index[k].metadata.sector = req.sector[1]
                    /\ companies[index[k].id].sector = index[k].metadata.sector
                         => resp'.results[i].sector = req.sector[1]
             /\ Matching(index, req.sector) = {} => resp'.results = << >>
        /\ Handle("none") => resp'.status = 200 ]_vars

\* C3 witness: a request filtered by "Tech" was answered with results, all
\* of sector "Tech".
C3_Witness ==
    /\ pcR = "idle" /\ resp.status = 200 /\ req.sector = Some("Tech")
    /\ Len(resp.results) > 0
    /\ \A i \in DOMAIN resp.results : resp.results[i].sector = "Tech"

\* C4 as stated: never more than L results, exactly L when at least L
\* entries match, fewer when fewer match.
C4_ExactlyLimitWhenEnoughMatch ==
    [][ (Answered /\ resp'.status = 200)
          => LET n == Cardinality(Matching(index, req.sector))
             IN  /\ Len(resp'.results) <= req.limit
                 /\ n >= req.limit => Len(resp'.results) = req.limit
                 /\ n < req.limit => Len(resp'.results) < req.limit ]_vars

\* C4 amended: never more than L results; their number is min(L, matching
\* entries) less the hits skipped because the metadata map lacks their id:
\* exactly L when at least L entries match and none of the hits is
\* skipped, fewer than L when fewer match, also when L exceeds the corpus.
C4_LimitLessSkipped ==
    [][ (Answered /\ resp'.status = 200)
          => LET n == Cardinality(Matching(index, req.sector))
                 skipped == Cardinality({ k \in DOMAIN search_results' :
                                            ~Known(search_results'[k]) })
             IN  /\ Len(resp'.results) <= req.limit
                 /\ Len(resp'.results) = Min(req.limit, n) - skipped
                 /\ (n >= req.limit /\ skipped = 0)
                      => Len(resp'.results) = req.limit
                 /\ n < req.limit => Len(resp'.results) < req.limit ]_vars

\* C4 witness: a request for 2 results was answered with exactly 2, and so
\* was not cut short.
C4_Witness ==
    /\ pcR = "idle" /\ resp.status = 200 /\ req.limit = 2
    /\ Len(resp.results) = 2

\* C5: the results keep the order of the hits they come from, and since the
\* hits come nearest first the scores never rise along the results.
C5_OrderKept ==
    resp.status = 200 =>
      /\ \A i, j \in DOMAIN resp.results :
           i < j =>
             /\ \E k \in DOMAIN search_results :
                  search_results[k].id = resp.results[i].stock_symbol
             /\ \E k \in DOMAIN search_results :
                  search_results[k].id = resp.results[j].stock_symbol
             /\ Position(search_results, resp.results[i].stock_symbol)
                  < Position(search_results, resp.results[j].stock_symbol)
      /\ (\A a, b \in DOMAIN search_results :
             a < b => search_results[a].distance <= search_results[b].distance)
           => \A i, j \in DOMAIN resp.results :
                  i < j => resp.results[i].score >= resp.results[j].score

\* C5 witness: two results of different scores, the better one first.
C5_Witness ==
    /\ resp.status = 200 /\ Len(resp.results) = 2
    /\ resp.results[1].score > resp.results[2].score

C7_MissingIdSkipped ==
    (pcR = "idle" /\ Len(search_results) > 0) =>
      /\ resp.status = 200
      /\ LET S == Survivors(search_results)
         IN  /\ Len(resp.results) = Len(S)
             /\ \A i \in DOMAIN S :
                  resp.results[i] =
                    CompanyResult(companies[S[i].id], Scale - S[i].distance)

\* C7 witness: of two hits one was skipped and the other returned.
C7_Witness ==
    /\ pcR = "idle" /\ resp.status = 200
    /\ Len(search_results) = 2 /\ Len(resp.results) = 1
    /\ ~Known(search_results[1])

\* C8: a search in which a call raises is answered by one 500 that carries
\* no result, count or query; a search in which none raises is answered by
\* 200 with the complete list; either way the service stays ready for the
\* next request.
C8_ErrorIsOne500 ==
    [][ \A fail \in SearchFailures :
          Handle(fail) =>
            /\ fail # "none" =>
                 /\ resp'.status = 500
                 /\ resp'.results = << >> /\ resp'.count = 0
                 /\ resp'.query = None
            /\ fail = "none" =>
                 /\ resp'.status = 200
                 /\ Len(resp'.results) = Len(Survivors(search_results'))
                 /\ resp'.count = Len(resp'.results)
            /\ initialized' /\ pcR' = "idle" /\ companies' = companies ]_vars

\* C8 witness: a request was answered 500.
C8_Witness ==
    /\ pcR = "idle" /\ resp.status = 500 /\ resp.results = << >>
    /\ initialized

\* C9: _initialize completes at most once, and once the service is ready no
\* step, a further SearchService() included, changes the instance, its
\* connection or its metadata map.
C9_InitializedOnce ==
    /\ [](initCount <= 1)
    /\ [][ initialized =>
             /\ initialized' /\ instance'
             /\ collection' = collection
             /\ companies' = companies
             /\ initCount' = initCount ]_vars

\* C9 witness: SearchService() was called again after initialization, while
\* the index no longer holds what the metadata map was loaded from.
C9_Witness ==
    /\ initialized /\ skippedInit /\ initCount = 1
    /\ Ids(index) # DOMAIN companies

\* C10 as stated: however the threads' first calls interleave, the model
\* constructor returns at most once and every encode runs on that model.
C10_ModelLoadedOnce ==
    /\ loadCount <= 1
    /\ \A t \in Threads : tused[t] \in {0, 1}

\* --------------------------------------------------- claims on readiness
\* C11 as stated: a call of search on a service that is not ready raises,
\* and neither encodes nor queries the index nor returns a list.
C11_NotReadyRejected ==
    (called.made /\ ~called.ready)
      => /\ called.raised
         /\ ~called.encoded
         /\ ~called.queried
         /\ called.results = None

\* ------------------------------------------------ claims on a failed build
\* The dataset the last run loaded (none when get_companies was not reached
\* or raised).
Loaded(run) == IF run.companies = None THEN << >> ELSE run.companies[1]

PopulationFailures == { "load", "encode", "add" }

\* C12: a run in which loading the dataset, encoding it or the insert
\* raises ends with a non-zero exit status and adds no entry to the index;
\* when the run did not clear the index (no --force, or the index was
\* empty) the index after the run is the index before it.
C12_FailedBuildAddsNothing ==
    [][ \A fail \in PopulationFailures :
          ( /\ ~ShouldSkip(Len(index), last'.force)
            /\ Build(last'.force, Loaded(last'), fail) )
            => /\ last'.exit # 0
               /\ Range(index') \subseteq Range(index)
               /\ Len(index') <= Len(index)
               /\ ~last'.wiped => index' = index
               /\ (~last'.force \/ Len(index) = 0) => index' = index ]_vars

\* C12 witness: the insert of a loaded and encoded dataset raised, in a run
\* that cleared nothing, and the run exited with status 1.
C12_Witness ==
    /\ last.ran /\ last.exit = 1 /\ ~last.wiped
    /\ last.companies # None /\ Len(last.companies[1]) > 0
    /\ last.encoded

\* ---------------------------------------------------- claims on blank ids
\* C13 as stated: a row whose stock symbol is blank (an empty cell, made ""
\* by fillna) is left out: the companies process_data returns hold none of
\* blank symbol, and no build writes an index entry whose id is blank.
C13_BlankIdExcluded ==
    /\ last.companies # None
         => \A i \in DOMAIN ProcessData(Loaded(last)) :
                ProcessData(Loaded(last))[i].stock_symbol # ""
    /\ \A k \in DOMAIN index : index[k].id # ""

\* -------------------------------------------------- claims on the response
\* What search returns for the hits the index answered with, when no call
\* raises.
Returned(hits) ==
    Search(companies, model, loadCount, "none", hits).results

\* C14: a request answered 200 carries a count equal to the length of its
\* result list, the list search returned for the request's query, limit and
\* sector, and the request's query string unchanged.
C14_ResponseEchoesSearch ==
    [][ (Answered /\ resp'.status = 200)
          => /\ resp'.count = Len(resp'.results)
             /\ resp'.query = Some(req.query)
             /\ search_results' \in Query(index, Embed(req.query), req.limit,
                                          WhereClause(req.sector))
             /\ resp'.results = Returned(search_results') ]_vars

\* C14 witness: the request "banking", limit 2, was answered with two
\* results, count 2 and query "banking".
C14_Witness ==
    /\ pcR = "idle" /\ resp.status = 200
    /\ req.query = "banking" /\ req.limit = 2
    /\ Len(resp.results) = 2 /\ resp.count = 2
    /\ resp.query = Some("banking")

\* ------------------------------------------- claims on the frame of search
\* The answers search may give to a request from the index and the metadata
\* map as they are, whatever was asked before.
Answers(r) ==
    { Returned(hits) :
        hits \in Query(index, Embed(r.query), r.limit, WhereClause(r.sector)) }

\* C15: once the service is ready, a search, whether it succeeds or fails,
\* changes neither the metadata map nor the index nor the service's
\* connection and readiness; so the answer to a request is one the index
\* and the map as they stand determine, whatever requests came before.
C15_SearchMutatesNothing ==
    [][ \A fail \in SearchFailures :
          Handle(fail)
            => /\ companies' = companies
               /\ index' = index
               /\ collection' = collection
               /\ initialized' /\ instance'
               /\ resp'.status = 200 => resp'.results \in Answers(req) ]_vars

\* C15 witness: a search that loaded the model and then failed was answered
\* 500 while the map and the index hold entries.
C15_Witness ==
    /\ pcR = "idle" /\ resp.status = 500 /\ model # 0
    /\ DOMAIN companies # {} /\ Len(index) > 0

\* ------------------------------------------------ claims on a built index
\* The text of a record that is encoded: name, id, category and description
\* joined by single spaces, in that order.
IndexableText(row) ==
    row.company_name \o " " \o row.stock_symbol \o " " \o row.sector
        \o " " \o row.description

TripleOf(row) ==
    [id |-> row.stock_symbol,
     embedding |-> Embed(IndexableText(row)),
     metadata |-> [company_name |-> row.company_name,
                   sector |-> row.sector,
                   description |-> row.description]]

\* C16: after a run that populated the index (empty before, or cleared by
\* the run) and exited 0, the index holds one entry per row of the dataset
\* and no other: as many entries as rows, each row's entry carrying the
\* row's id, its name, sector and description, and the encoding of its own
\* text, and every entry being that of a row.
C16_OneEntryPerRecord ==
    (last.ran /\ last.exit = 0 /\ last.companies # None)
      => LET rows == Loaded(last)
         IN  /\ Len(index) = Len(rows)
             /\ \A i \in DOMAIN rows :
                  Cardinality({ k \in DOMAIN index :
                                  index[k].id = rows[i].stock_symbol }) = 1
             /\ \A i \in DOMAIN rows :
                  \E k \in DOMAIN index : index[k] = TripleOf(rows[i])
             /\ \A k \in DOMAIN index :
                  \E i \in DOMAIN rows : index[k] = TripleOf(rows[i])

\* C16 witness: a run with --force cleared the index and populated it with
\* three rows, two of them of different encodings.
C16_Witness ==
    /\ last.ran /\ last.exit = 0 /\ last.wiped
    /\ last.companies # None /\ Len(last.companies[1]) = 3
    /\ Len(index) = 3
    /\ \E j, k \in DOMAIN index : index[j].embedding # index[k].embedding

====
